---- MODULE Spec2Model ----
(***************************************************************************)
(* Model of PodGoImg (src/main.go): main reads the podcast catalog from a  *)
(* MongoDB cursor and, for every document that decodes, registers one unit *)
(* with a sync.WaitGroup, sends one token into a buffered channel (the     *)
(* semaphore) and starts a goroutine that downloads, resizes and saves the *)
(* image.  The goroutine's two deferred calls release the token and then   *)
(* call wg.Done.  main waits on the WaitGroup and prints one line.         *)
(*                                                                         *)
(* The channel capacity (10 in main) is drawn from 1..MaxPool and the      *)
(* catalog from the sequences of at most MaxRecords documents, so that the *)
(* blocking send on a full channel happens within a small state space.     *)
(***************************************************************************)
EXTENDS Integers, Sequences, FiniteSets, TLC

\* ---------------------------------------------------------------- bounds
MaxRecords == 2
MaxPool == 2

\* ------------------------------------------------------ program constants
ResizeWidth == 800
ResizeHeight == 800
JpegQuality == 75

OutputDir == "img"
NoErr == "nil"
Nil == [src |-> "", size |-> <<0, 0>>]

\* --------------------------------------------------------- the environment
\* A document of the collection: one that decodes into the podcast struct,
\* or one whose decoding fails (bad).
\* The collection may hold the same document twice (no uniqueness is enforced).
GoodDocs ==
  { [bad |-> FALSE, podlistUrl |-> "a", image |-> "u1"],
    [bad |-> FALSE, podlistUrl |-> "b", image |-> "u2"] }
BadDoc == [bad |-> TRUE, podlistUrl |-> "", image |-> ""]
Docs == GoodDocs \cup {BadDoc}

Catalogs == UNION {[1..n -> Docs] : n \in 0..MaxRecords}

\* What the remote source answers to one http.Get.
Responses ==
  { [get |-> "err", status |-> 0,   read |-> "ok",  body |-> "none"],
    [get |-> "ok",  status |-> 200, read |-> "err", body |-> "none"],
    [get |-> "ok",  status |-> 200, read |-> "ok",  body |-> "jpeg"],
    [get |-> "ok",  status |-> 200, read |-> "ok",  body |-> "png"],
    [get |-> "ok",  status |-> 200, read |-> "ok",  body |-> "corrupt"],
    [get |-> "ok",  status |-> 404, read |-> "ok",  body |-> "jpeg"],
    [get |-> "ok",  status |-> 404, read |-> "ok",  body |-> "corrupt"] }

\* The image formats registered with package image by the imports of main.go.
RegisteredFormats == {"jpeg"}

VARIABLES
  catalog,   \* the documents the cursor yields, in order
  cap,       \* capacity of the channel sem
  pc,        \* position of main
  pos,       \* number of documents the cursor has yielded
  podcast,   \* the loop variable filled by cur.Decode
  curErr,    \* cur.Err() is non-nil
  wg,        \* counter of the WaitGroup
  sem,       \* number of tokens in the channel sem
  tasks,     \* the goroutines started so far, by catalog position
  files,     \* the files under img, by path
  dirMade,   \* os.MkdirAll("img") has succeeded
  mainlog,   \* lines logged by main
  stdout     \* lines printed on standard output

vars == <<catalog, cap, pc, pos, podcast, curErr, wg, sem, tasks,
          files, dirMade, mainlog, stdout>>

envVars == <<catalog, cap>>

\* ------------------------------------------------------------ pure helpers
LogLine(format, args) == [fmt |-> format, args |-> args]

Println(text, values) == [text |-> text, values |-> values]

ZeroPodcast == [PodlistUrl |-> "", Image |-> ""]

\* Mutant of SavePath: the identifier is left out of the file name.
SavePath_NoId(p) == OutputDir \o "/" \o ".jpg"

\* filepath.Join("img", podcast.PodlistUrl+".jpg")
SavePath(p) == OutputDir \o "/" \o p.PodlistUrl \o ".jpg"

\* downloadImage: the error of http.Get, then of io.ReadAll, then of
\* image.Decode; the status code of the response is not looked at.
DownloadImage(url, resp) ==
  IF resp.get = "err" THEN [img |-> Nil, err |-> "failed to get image"]
  ELSE IF resp.read = "err" THEN [img |-> Nil, err |-> "failed to read image data"]
  ELSE IF resp.body \notin RegisteredFormats THEN [img |-> Nil, err |-> "failed to decode image"]
  ELSE [img |-> [src |-> url, size |-> <<1, 1>>], err |-> NoErr]

\* Mutant of ResizeImage: the image is returned at its own size.
ResizeImage_NoScale(img, width, height) == [img |-> img, err |-> NoErr]

\* resizeImage: resize.Resize to the given width and height, error always nil.
ResizeImage(img, width, height) ==
  [img |-> [src |-> img.src, size |-> <<width, height>>], err |-> NoErr]

\* jpeg.Encode(out, img, &jpeg.Options{Quality: 75}): the encoded stream.
JpegEncode(img) == [img |-> img, quality |-> JpegQuality]

\* jpeg.Encode writes the stream through a buffered writer, in several writes
\* to the task's own file descriptor, each at that descriptor's offset: here
\* a head and a tail.  A chunk carries the task that wrote it, since each
\* task encodes the bytes it fetched itself.
NoChunk == [by |-> 0, img |-> Nil, quality |-> 0]
Chunk(t, enc) == [by |-> t, img |-> enc.img, quality |-> enc.quality]

\* os.Create: the file exists and is empty (an existing file is truncated).
Truncated == [head |-> NoChunk, tail |-> NoChunk]

FileState(f) ==
  IF f.head = NoChunk /\ f.tail = NoChunk THEN "empty"
  ELSE IF f.head = NoChunk \/ f.tail = NoChunk THEN "partial"
  ELSE IF f.head.by = f.tail.by THEN "complete"
  ELSE "mixed"

EmptyFn == [x \in {} |-> Nil]

NewTask(p) ==
  [podcast |-> p, pc |-> "download", img |-> Nil, rel |-> 0, done |-> 0,
   fileops |-> 0, fail |-> "none", log |-> <<>>]

Exited == pc \in {"exit0", "exit1"}

\* Where a `return` of the goroutine body goes: the deferred calls run in
\* reverse order of their defer statements, the token release first.
AfterReturn == "defer_sem"

\* -------------------------------------------------------------------- Init
Init ==
  /\ catalog \in Catalogs
  /\ cap \in 1..MaxPool
  /\ pc = "connect"
  /\ pos = 0
  /\ podcast = ZeroPodcast
  /\ curErr = FALSE
  /\ wg = 0
  /\ sem = 0
  /\ tasks = EmptyFn
  /\ files = EmptyFn
  /\ dirMade = FALSE
  /\ mainlog = <<>>
  /\ stdout = <<>>

\* log.Fatalf: the line is logged and the process exits with status 1.
Fatalf(format) ==
  /\ mainlog' = Append(mainlog, LogLine(format, <<"err">>))
  /\ pc' = "exit1"

\* ------------------------------------------------------------------- main
MainConnect ==
  /\ pc = "connect"
  /\ \E ok \in BOOLEAN :
       IF ok THEN pc' = "find" /\ UNCHANGED mainlog
       ELSE Fatalf("Failed to connect to MongoDB: %v")
  /\ UNCHANGED <<envVars, pos, podcast, curErr, wg, sem, tasks, files, dirMade, stdout>>

MainFind ==
  /\ pc = "find"
  /\ \E ok \in BOOLEAN :
       IF ok THEN pc' = "mkdir" /\ UNCHANGED mainlog
       ELSE Fatalf("Failed to find documents: %v")
  /\ UNCHANGED <<envVars, pos, podcast, curErr, wg, sem, tasks, files, dirMade, stdout>>

MainMkdir ==
  /\ pc = "mkdir"
  /\ \E ok \in BOOLEAN :
       IF ok THEN pc' = "next" /\ dirMade' = TRUE /\ UNCHANGED mainlog
       ELSE Fatalf("Failed to create directory: %v") /\ UNCHANGED dirMade
  /\ UNCHANGED <<envVars, pos, podcast, curErr, wg, sem, tasks, files, stdout>>

\* Mutant of MainNext: the `continue` after a failed cur.Decode is missing.
MainNext_NoContinue ==
  /\ pc = "next"
  /\ \E fault \in BOOLEAN :
       IF fault
       THEN /\ curErr' = TRUE
            /\ Fatalf("Cursor error: %v")
            /\ UNCHANGED <<pos, podcast>>
       ELSE IF pos < Len(catalog)
       THEN /\ pos' = pos + 1
            /\ UNCHANGED curErr
            /\ pc' = "add"
            /\ IF catalog[pos + 1].bad
               THEN /\ mainlog' = Append(mainlog, LogLine("Failed to decode document: %v", <<"err">>))
                    /\ podcast' = ZeroPodcast
               ELSE /\ podcast' = [PodlistUrl |-> catalog[pos + 1].podlistUrl,
                                   Image |-> catalog[pos + 1].image]
                    /\ UNCHANGED mainlog
       ELSE /\ pc' = "wait"
            /\ UNCHANGED <<pos, podcast, curErr, mainlog>>
  /\ UNCHANGED <<envVars, wg, sem, tasks, files, dirMade, stdout>>

\* for cur.Next(...) { err := cur.Decode(&podcast); if err != nil { log; continue } ...
\* and, when cur.Next returns false (end of the result set, or a cursor
\* error), if err := cur.Err(); err != nil { log.Fatalf(...) }.
MainNext ==
  /\ pc = "next"
  /\ \E fault \in BOOLEAN :
       IF fault
       THEN /\ curErr' = TRUE
            /\ Fatalf("Cursor error: %v")
            /\ UNCHANGED <<pos, podcast>>
       ELSE IF pos < Len(catalog)
       THEN /\ pos' = pos + 1
            /\ UNCHANGED curErr
            /\ IF catalog[pos + 1].bad
               THEN /\ mainlog' = Append(mainlog, LogLine("Failed to decode document: %v", <<"err">>))
                    /\ pc' = "next"
                    /\ podcast' = ZeroPodcast
               ELSE /\ podcast' = [PodlistUrl |-> catalog[pos + 1].podlistUrl,
                                   Image |-> catalog[pos + 1].image]
                    /\ pc' = "add"
                    /\ UNCHANGED mainlog
       ELSE /\ pc' = "wait"
            /\ UNCHANGED <<pos, podcast, curErr, mainlog>>
  /\ UNCHANGED <<envVars, wg, sem, tasks, files, dirMade, stdout>>

\* Mutant of MainAdd: main does not register the task.
MainAdd_NoAdd ==
  /\ pc = "add"
  /\ pc' = "acquire"
  /\ UNCHANGED <<envVars, pos, podcast, curErr, wg, sem, tasks, files, dirMade, mainlog, stdout>>

\* wg.Add(1)
MainAdd ==
  /\ pc = "add"
  /\ wg' = wg + 1
  /\ pc' = "acquire"
  /\ UNCHANGED <<envVars, pos, podcast, curErr, sem, tasks, files, dirMade, mainlog, stdout>>

\* Mutant of MainAcquire: a send that does not block on a full channel.
MainAcquire_NoBlock ==
  /\ pc = "acquire"
  /\ sem' = IF sem < cap THEN sem + 1 ELSE sem
  /\ pc' = "go"
  /\ UNCHANGED <<envVars, pos, podcast, curErr, wg, tasks, files, dirMade, mainlog, stdout>>

\* sem <- struct{}{} : blocks while the channel is full.
MainAcquire ==
  /\ pc = "acquire"
  /\ sem < cap
  /\ sem' = sem + 1
  /\ pc' = "go"
  /\ UNCHANGED <<envVars, pos, podcast, curErr, wg, tasks, files, dirMade, mainlog, stdout>>

\* go func(podcast ...){...}(podcast): the goroutine gets a copy of podcast.
MainGo ==
  /\ pc = "go"
  /\ tasks' = tasks @@ (pos :> NewTask(podcast))
  /\ pc' = "next"
  /\ UNCHANGED <<envVars, pos, podcast, curErr, wg, sem, files, dirMade, mainlog, stdout>>

\* Mutant of MainWait: main does not wait for the counter to reach zero.
MainWait_NoBlock ==
  /\ pc = "wait"
  /\ pc' = "print"
  /\ UNCHANGED <<envVars, pos, podcast, curErr, wg, sem, tasks, files, dirMade, mainlog, stdout>>

\* wg.Wait(): returns when the counter is zero.
MainWait ==
  /\ pc = "wait"
  /\ wg = 0
  /\ pc' = "print"
  /\ UNCHANGED <<envVars, pos, podcast, curErr, wg, sem, tasks, files, dirMade, mainlog, stdout>>

\* Mutant of MainPrint: the process exits with status 1 when a task failed.
MainPrint_ExitOnFailure ==
  /\ pc = "print"
  /\ stdout' = Append(stdout, Println("All images processed.", <<>>))
  /\ pc' = IF \E t \in DOMAIN tasks : tasks[t].fail # "none" THEN "exit1" ELSE "exit0"
  /\ UNCHANGED <<envVars, pos, podcast, curErr, wg, sem, tasks, files, dirMade, mainlog>>

\* fmt.Println("All images processed.") and the return of main.
MainPrint ==
  /\ pc = "print"
  /\ stdout' = Append(stdout, Println("All images processed.", <<>>))
  /\ pc' = "exit0"
  /\ UNCHANGED <<envVars, pos, podcast, curErr, wg, sem, tasks, files, dirMade, mainlog>>

Main ==
  \/ MainConnect \/ MainFind \/ MainMkdir \/ MainNext \/ MainAdd
  \/ MainAcquire \/ MainGo \/ MainWait \/ MainPrint

\* -------------------------------------------------------------- goroutines
Running(t) == t \in DOMAIN tasks /\ ~Exited

\* Mutant of TaskFail: the token release is not deferred, a failing return
\* skips it.
TaskFail_NoRelease(t, step, line) ==
  [tasks EXCEPT ![t].pc = "defer_wg", ![t].fail = step, ![t].log = Append(@, line)]

\* log.Printf(...); return
TaskFail(t, step, line) ==
  [tasks EXCEPT ![t].pc = AfterReturn, ![t].fail = step, ![t].log = Append(@, line)]

\* Mutant of TaskDownload: the failure is logged with log.Fatalf.
TaskDownload_Fatal(t) ==
  /\ Running(t)
  /\ tasks[t].pc = "download"
  /\ \E resp \in Responses :
       LET r == DownloadImage(tasks[t].podcast.Image, resp) IN
         IF r.err # NoErr
         THEN /\ tasks' = [tasks EXCEPT ![t].fail = "download", ![t].log = Append(@,
                    LogLine("Failed to download image: %s, error: %v", <<tasks[t].podcast.Image, r.err>>))]
              /\ pc' = "exit1"
         ELSE /\ tasks' = [tasks EXCEPT ![t].pc = "resize", ![t].img = r.img]
              /\ UNCHANGED pc
  /\ UNCHANGED <<envVars, pos, podcast, curErr, wg, sem, files, dirMade, mainlog, stdout>>

\* Mutant of TaskDownload: the `return` after the logged failure is missing.
TaskDownload_NoReturn(t) ==
  /\ Running(t)
  /\ tasks[t].pc = "download"
  /\ \E resp \in Responses :
       LET r == DownloadImage(tasks[t].podcast.Image, resp) IN
         IF r.err # NoErr
         THEN tasks' = [tasks EXCEPT ![t].pc = "resize", ![t].fail = "download", ![t].log = Append(@,
                    LogLine("Failed to download image: %s, error: %v", <<tasks[t].podcast.Image, r.err>>))]
         ELSE tasks' = [tasks EXCEPT ![t].pc = "resize", ![t].img = r.img]
  /\ UNCHANGED <<envVars, pc, pos, podcast, curErr, wg, sem, files, dirMade, mainlog, stdout>>

\* Mutant of TaskDownload: the goroutine reads the variable podcast of main
\* instead of its own copy.
TaskDownload_SharedVar(t) ==
  /\ Running(t)
  /\ tasks[t].pc = "download"
  /\ \E resp \in Responses :
       LET r == DownloadImage(podcast.Image, resp) IN
         IF r.err # NoErr
         THEN tasks' = [tasks EXCEPT ![t].pc = "defer_sem", ![t].fail = "download", ![t].log = Append(@,
                    LogLine("Failed to download image: %s, error: %v", <<podcast.Image, r.err>>))]
         ELSE tasks' = [tasks EXCEPT ![t].pc = "resize", ![t].img = r.img]
  /\ UNCHANGED <<envVars, pc, pos, podcast, curErr, wg, sem, files, dirMade, mainlog, stdout>>

\* imageData, err := downloadImage(podcast.Image)
TaskDownload(t) ==
  /\ Running(t)
  /\ tasks[t].pc = "download"
  /\ \E resp \in Responses :
       LET r == DownloadImage(tasks[t].podcast.Image, resp) IN
         IF r.err # NoErr
         THEN tasks' = TaskFail(t, "download",
                 LogLine("Failed to download image: %s, error: %v", <<tasks[t].podcast.Image, r.err>>))
         ELSE tasks' = [tasks EXCEPT ![t].pc = "resize", ![t].img = r.img]
  /\ UNCHANGED <<envVars, pc, pos, podcast, curErr, wg, sem, files, dirMade, mainlog, stdout>>

\* resizedImg, err := resizeImage(imageData, 800, 800)
TaskResize(t) ==
  /\ Running(t)
  /\ tasks[t].pc = "resize"
  /\ LET r == ResizeImage(tasks[t].img, ResizeWidth, ResizeHeight) IN
       IF r.err # NoErr
       THEN tasks' = TaskFail(t, "resize", LogLine("Failed to resize image: %v", <<r.err>>))
       ELSE tasks' = [tasks EXCEPT ![t].pc = "create", ![t].img = r.img]
  /\ UNCHANGED <<envVars, pc, pos, podcast, curErr, wg, sem, files, dirMade, mainlog, stdout>>

\* saveImage, first half: out, err := os.Create(path)
TaskCreate(t) ==
  /\ Running(t)
  /\ tasks[t].pc = "create"
  /\ \E ok \in BOOLEAN :
       IF ok
       THEN /\ files' = (SavePath(tasks[t].podcast) :> Truncated) @@ files
            /\ tasks' = [tasks EXCEPT ![t].pc = "encode", ![t].fileops = @ + 1]
       ELSE /\ tasks' = TaskFail(t, "save",
                  LogLine("Failed to save image: %v", <<"failed to create file">>))
            /\ UNCHANGED files
  /\ UNCHANGED <<envVars, pc, pos, podcast, curErr, wg, sem, dirMade, mainlog, stdout>>

\* saveImage, second half: jpeg.Encode(out, img, options), the writes of the
\* buffered writer before the last one.
TaskEncode(t) ==
  /\ Running(t)
  /\ tasks[t].pc = "encode"
  /\ files' = [files EXCEPT ![SavePath(tasks[t].podcast)].head =
                  Chunk(t, JpegEncode(tasks[t].img))]
  /\ tasks' = [tasks EXCEPT ![t].pc = "encode_tail", ![t].fileops = @ + 1]
  /\ UNCHANGED <<envVars, pc, pos, podcast, curErr, wg, sem, dirMade, mainlog, stdout>>

\* jpeg.Encode, its last write (the flush of the buffered writer), which
\* succeeds or ends in a write error, then the deferred out.Close() and the
\* return of saveImage.
TaskEncodeTail(t) ==
  /\ Running(t)
  /\ tasks[t].pc = "encode_tail"
  /\ \E ok \in BOOLEAN :
       IF ok
       THEN /\ files' = [files EXCEPT ![SavePath(tasks[t].podcast)].tail =
                            Chunk(t, JpegEncode(tasks[t].img))]
            /\ tasks' = [tasks EXCEPT ![t].pc = AfterReturn, ![t].fileops = @ + 1]
       ELSE /\ UNCHANGED files
            /\ tasks' = [TaskFail(t, "save", LogLine("Failed to save image: %v", <<"write error">>))
                           EXCEPT ![t].fileops = @ + 1]
  /\ UNCHANGED <<envVars, pc, pos, podcast, curErr, wg, sem, dirMade, mainlog, stdout>>

\* Mutant of TaskReleaseSem: the deferred function does not receive from sem.
TaskReleaseSem_Leak(t) ==
  /\ Running(t)
  /\ tasks[t].pc = "defer_sem"
  /\ tasks' = [tasks EXCEPT ![t].pc = "defer_wg", ![t].rel = @ + 1]
  /\ UNCHANGED <<envVars, pc, pos, podcast, curErr, wg, sem, files, dirMade, mainlog, stdout>>

\* defer func() { <-sem }()
TaskReleaseSem(t) ==
  /\ Running(t)
  /\ tasks[t].pc = "defer_sem"
  /\ sem > 0
  /\ sem' = sem - 1
  /\ tasks' = [tasks EXCEPT ![t].pc = "defer_wg", ![t].rel = @ + 1]
  /\ UNCHANGED <<envVars, pc, pos, podcast, curErr, wg, files, dirMade, mainlog, stdout>>

\* Mutant of TaskDone: the goroutine ends without calling wg.Done.
TaskDone_NoDecrement(t) ==
  /\ Running(t)
  /\ tasks[t].pc = "defer_wg"
  /\ tasks' = [tasks EXCEPT ![t].pc = "done"]
  /\ UNCHANGED <<envVars, pc, pos, podcast, curErr, wg, sem, files, dirMade, mainlog, stdout>>

\* defer wg.Done()
TaskDone(t) ==
  /\ Running(t)
  /\ tasks[t].pc = "defer_wg"
  /\ wg' = wg - 1
  /\ tasks' = [tasks EXCEPT ![t].pc = "done", ![t].done = @ + 1]
  /\ UNCHANGED <<envVars, pc, pos, podcast, curErr, sem, files, dirMade, mainlog, stdout>>

Task(t) ==
  \/ TaskDownload(t) \/ TaskResize(t) \/ TaskCreate(t) \/ TaskEncode(t)
  \/ TaskEncodeTail(t) \/ TaskReleaseSem(t) \/ TaskDone(t)

Next == Main \/ \E t \in 1..MaxRecords : Task(t)

Spec == Init /\ [][Next]_vars

\* The Go scheduler keeps running a runnable goroutine, and every call into
\* the network or the file system returns: a step that can be taken is
\* eventually taken.  Every step advances the program counter of main or of
\* one goroutine, so no goroutine can be overtaken for ever.
FairSpec == Spec /\ WF_vars(Next)

TypeOK ==
  /\ pc \in {"connect", "find", "mkdir", "next", "add", "acquire",
             "go", "wait", "print", "exit0", "exit1"}
  /\ pos \in 0..Len(catalog)
  /\ wg \in 0..MaxRecords
  /\ sem \in 0..cap
  /\ DOMAIN tasks \subseteq 1..pos

\* ------------------------------------------------------- derived notions
RECURSIVE SumOver(_, _)
SumOver(f, S) ==
  IF S = {} THEN 0
  ELSE LET x == CHOOSE y \in S : TRUE IN f[x] + SumOver(f, S \ {x})

\* The tasks that hold a token: spawned and not yet past <-sem.
Holding == {t \in DOMAIN tasks : tasks[t].rel = 0}
Terminated == {t \in DOMAIN tasks : tasks[t].pc = "done"}
Succeeded == {t \in Terminated : tasks[t].fail = "none"}
Failed == {t \in Terminated : tasks[t].fail # "none"}
FailedAt(step) == {t \in DOMAIN tasks : tasks[t].fail = step}

\* The catalog positions read so far whose document decoded.
GoodRead == {i \in 1..pos : ~catalog[i].bad}

NumAcquires == Cardinality(DOMAIN tasks) + (IF pc = "go" THEN 1 ELSE 0)
NumReleases == SumOver([t \in DOMAIN tasks |-> tasks[t].rel], DOMAIN tasks)

SummaryPrinted ==
  \E i \in 1..Len(stdout) : stdout[i].text = "All images processed."

DownloadLines(t) ==
  {i \in 1..Len(tasks[t].log) :
     tasks[t].log[i].fmt = "Failed to download image: %s, error: %v"}

DistinctIds ==
  \A i, j \in 1..Len(catalog) :
     i # j => catalog[i].podlistUrl # catalog[j].podlistUrl

\* ------------------------------------------------------------------ claims

\* C1: in every reachable state the number of tasks that hold a token
\* (spawned, token not yet released) is at most the capacity of the pool.
C1_PoolBound == Cardinality(Holding) <= cap

\* The pool is exhausted and main is blocked on the send for the next record.
C1_Witness ==
  /\ pc = "acquire"
  /\ sem = cap
  /\ Cardinality(Holding) = cap

\* C2: once wg.Wait has returned (main is at the Println or has exited with
\* status 0), every registered task has terminated, so no task is before or
\* inside its file write and no file is left open and empty by a running task.
C2_WaitAfterAll ==
  pc \in {"print", "exit0"} =>
    /\ DOMAIN tasks = GoodRead
    /\ \A t \in DOMAIN tasks : tasks[t].pc = "done" /\ tasks[t].done = 1
    /\ pc = "exit0" => SummaryPrinted

\* Two tasks were dispatched, main has returned, a file is complete.
C2_Witness ==
  /\ pc = "exit0"
  /\ Cardinality(Terminated) = 2
  /\ \E t \in Succeeded : FileState(files[SavePath(tasks[t].podcast)]) = "complete"

\* C3 (as claimed): at every process exit, every dispatched task has
\* terminated.  The exit through log.Fatalf on a cursor error violates it.
C3_AllTerminatedAtExit ==
  Exited => \A t \in DOMAIN tasks : tasks[t].pc = "done"

\* C4: under fair scheduling the run terminates: main is never blocked for
\* ever on the send into sem, and from the loop as from wg.Wait the run
\* reaches its end, which is the printed summary and status 0 unless the
\* cursor reported an error (wg.Wait is reached only without one).
C4_Terminates ==
  /\ (pc = "acquire") ~> (pc = "go")
  /\ (pc \in {"next", "wait"})
       ~> ((pc = "exit0" /\ SummaryPrinted) \/ (pc = "exit1" /\ curErr))

\* With one token, two tasks ran one after the other and the summary is out.
C4_Witness ==
  /\ pc = "exit0"
  /\ SummaryPrinted
  /\ Cardinality(Terminated) = 2
  /\ cap = 1

\* The step in which a task fails leaves main and every other task alone.
C5_FailStepFrame ==
  \A t \in DOMAIN tasks :
    (tasks[t].fail = "none" /\ tasks'[t].fail # "none") =>
      /\ UNCHANGED <<pc, pos, podcast, curErr, wg, sem, mainlog, stdout>>
      /\ DOMAIN tasks' = DOMAIN tasks
      /\ \A u \in DOMAIN tasks \ {t} : tasks'[u] = tasks[u]

\* C5: the step in which a task fails changes neither main nor any other
\* task, and after a failure the run still goes on until every document of
\* the catalog that decodes has its task terminated and main has exited with
\* status 0 (unless a cursor error ends the process).
C5_FailureIsolated ==
  /\ [][C5_FailStepFrame]_vars
  /\ (\E t \in DOMAIN tasks : tasks[t].fail # "none")
       ~> \/ pc = "exit1"
          \/ /\ pc = "exit0"
             /\ \A i \in 1..Len(catalog) : ~catalog[i].bad => i \in Terminated

\* One task has failed and terminated, a sibling dispatched after the failure
\* has terminated as Succeeded, and main has exited with status 0.
C5_Witness ==
  /\ pc = "exit0"
  /\ 1 \in Failed
  /\ 2 \in Succeeded

\* C6: a task whose downloadImage call failed has performed no file
\* operation, and its next step is the token release: it is at the deferred
\* release holding its token, or past it with the token released once.
C6_DownloadFailNoFile ==
  \A t \in FailedAt("download") :
    /\ tasks[t].fileops = 0
    /\ \/ tasks[t].pc = "defer_sem" /\ tasks[t].rel = 0
       \/ tasks[t].pc \in {"defer_wg", "done"} /\ tasks[t].rel = 1

\* A task failed in downloadImage and terminated; its file does not exist.
C6_Witness ==
  \E t \in FailedAt("download") :
    /\ tasks[t].pc = "done"
    /\ SavePath(tasks[t].podcast) \notin DOMAIN files

\* C7: every task releases its token exactly once on every exit path: no
\* task releases twice, a task is past its deferred release iff it has
\* released once, the releases never exceed the acquires, and the tokens in
\* the channel are exactly the acquires not yet released.
C7_TokenPairing ==
  /\ \A t \in DOMAIN tasks :
       /\ tasks[t].rel <= 1
       /\ (tasks[t].pc \in {"defer_wg", "done"}) <=> (tasks[t].rel = 1)
  /\ NumReleases <= NumAcquires
  /\ sem = NumAcquires - NumReleases

\* Tasks have terminated on a failing path and on the succeeding path.
C7_Witness ==
  /\ \E t \in Failed : tasks[t].fail = "save"
  /\ Succeeded # {}
  /\ sem = 0

\* The step that reads a document whose decoding fails.
C8_SkipStep ==
  (pc = "next" /\ pos' = pos + 1 /\ catalog[pos'].bad) =>
    /\ pc' = "next"
    /\ UNCHANGED <<wg, sem, tasks>>
    /\ mainlog' = Append(mainlog, LogLine("Failed to decode document: %v", <<"err">>))

\* C8: the step that reads a document whose decoding fails logs one line and
\* goes on to the next cur.Next, leaving the WaitGroup, the channel and the
\* set of tasks as they were; no task ever exists for such a document.
C8_DecodeErrorSkips ==
  /\ [][C8_SkipStep]_vars
  /\ [](\A t \in DOMAIN tasks : ~catalog[t].bad)

\* A document failed to decode and the document after it was dispatched.
C8_Witness ==
  /\ Len(catalog) = 2
  /\ catalog[1].bad
  /\ DOMAIN tasks = {2}
  /\ Len(mainlog) = 1
  /\ wg = 1

\* C9: for a catalog of M decodable documents with distinct identifiers, in
\* an output directory that starts empty, when the only failures are those
\* of downloadImage (k of them), the run that exits with status 0 leaves
\* exactly M - k files, all complete, and k logged download failures.
C9_FilesAndFailures ==
  ( /\ pc = "exit0"
    /\ DistinctIds
    /\ \A i \in 1..Len(catalog) : ~catalog[i].bad
    /\ \A t \in DOMAIN tasks : tasks[t].fail \in {"none", "download"} )
  =>
    LET M == Len(catalog)
        k == Cardinality(FailedAt("download"))
    IN /\ Cardinality(DOMAIN files) = M - k
       /\ \A f \in DOMAIN files : FileState(files[f]) = "complete"
       /\ SumOver([t \in DOMAIN tasks |-> Cardinality(DownloadLines(t))], DOMAIN tasks) = k
       /\ SumOver([t \in DOMAIN tasks |-> Len(tasks[t].log)], DOMAIN tasks) = k
       /\ mainlog = <<>>

\* Two documents, one download failed: one file.
C9_Witness ==
  /\ pc = "exit0"
  /\ DistinctIds
  /\ Len(catalog) = 2
  /\ \A i \in 1..Len(catalog) : ~catalog[i].bad
  /\ Cardinality(FailedAt("download")) = 1
  /\ Cardinality(Succeeded) = 1
  /\ Cardinality(DOMAIN files) = 1

\* C10 (as claimed): the summary printed after wg.Wait carries the numbers of
\* Succeeded and Failed tasks.  The program prints a fixed line.
C10_SummaryCounts ==
  pc = "exit0" =>
    \E i \in 1..Len(stdout) :
       stdout[i].values = <<Cardinality(Succeeded), Cardinality(Failed)>>

\* C11 (as claimed): when two documents carry the same identifier and both
\* tasks have saved their image and terminated as Succeeded, the one file at
\* their path is the complete output of one of the two tasks, never a mixture
\* of chunks of both.  Two overlapping saveImage calls violate it.
C11_CollisionHoldsOneOutput ==
  \A t, u \in Succeeded :
    (t # u /\ SavePath(tasks[t].podcast) = SavePath(tasks[u].podcast)) =>
      LET f == files[SavePath(tasks[t].podcast)] IN
        /\ FileState(f) = "complete"
        /\ f.head.by \in {t, u}

\* C12 (as claimed): whatever the body, downloadImage fails for a response
\* whose status is outside 2xx; stated for every task about to download.
\* downloadImage never looks at the status.
C12_NonSuccessStatusFails ==
  \A t \in DOMAIN tasks :
    tasks[t].pc = "download" =>
      \A resp \in Responses :
        (resp.get = "ok" /\ resp.status \notin 200..299) =>
          DownloadImage(tasks[t].podcast.Image, resp).err # NoErr

\* C17 (as claimed): a task that terminated as Failed has logged exactly one
\* line, which carries the identifier and the image locator of its document;
\* a task that terminated as Succeeded has logged nothing.  No line of the
\* goroutine carries the identifier.
C17_FailureLineContext ==
  /\ \A t \in Failed :
       /\ Len(tasks[t].log) = 1
       /\ \E i \in 1..Len(tasks[t].log[1].args) :
            tasks[t].log[1].args[i] = tasks[t].podcast.PodlistUrl
       /\ \E i \in 1..Len(tasks[t].log[1].args) :
            tasks[t].log[1].args[i] = tasks[t].podcast.Image
  /\ \A t \in Succeeded : tasks[t].log = <<>>

\* C18 (as claimed): for every task about to download, a response whose
\* body is a valid PNG passes downloadImage exactly as the same response
\* with a valid JPEG body does.  Only the JPEG decoder is registered.
C18_PngDecodesAsJpeg ==
  \A t \in DOMAIN tasks :
    tasks[t].pc = "download" =>
      \A resp \in Responses :
        (resp.get = "ok" /\ resp.read = "ok" /\ resp.body = "png") =>
          DownloadImage(tasks[t].podcast.Image, resp).err =
            DownloadImage(tasks[t].podcast.Image, [resp EXCEPT !.body = "jpeg"]).err

\* C20 (as claimed): a task that terminated as Failed has left the output
\* directory as it was: when no other task has the same path, the file at its
\* path, absent when the run started, is still absent.  A write error after
\* os.Create leaves a partial file.
C20_FailedTaskLeavesNoFile ==
  \A t \in Failed :
    (\A u \in DOMAIN tasks \ {t} :
        SavePath(tasks[u].podcast) # SavePath(tasks[t].podcast))
      => SavePath(tasks[t].podcast) \notin DOMAIN files

\* ------------------------------------------------- notions for C13 to C19
LastLogged == mainlog[Len(mainlog)].fmt

CatalogFatals ==
  {"Failed to connect to MongoDB: %v", "Failed to find documents: %v", "Cursor error: %v"}

\* The document a task was started for, as cur.Decode fills the struct.
RecordOf(t) == [PodlistUrl |-> catalog[t].podlistUrl, Image |-> catalog[t].image]

\* C13 (as claimed): a process that exits with a status other than 0 has hit
\* a fatal catalog error (connect, find or cursor).  The exit after a failed
\* os.MkdirAll violates it.
C13_OnlyCatalogFatal ==
  pc = "exit1" => (mainlog # <<>> /\ LastLogged \in CatalogFatals)

\* Once cur.Next has returned false without a cursor error, main can only go
\* on to wg.Wait, the Println and the exit with status 0.
C13_AfterLoopStep ==
  pc \in {"wait", "print"} => pc' \in {"wait", "print", "exit0"}

\* C13 (amended): a catalog read to its end without cursor error leads only
\* to the summary and exit status 0, however many tasks failed; the exit with
\* status 1 happens only through log.Fatalf in main, on a fatal catalog error
\* or on the failure to create the output directory, and prints no summary.
C13_ExitStatus ==
  /\ [][C13_AfterLoopStep]_vars
  /\ [](pc \in {"wait", "print", "exit0"} => (~curErr /\ pos = Len(catalog)))
  /\ [](pc = "exit0" => SummaryPrinted)
  /\ [](pc = "exit1" =>
         /\ mainlog # <<>>
         /\ LastLogged \in CatalogFatals \cup {"Failed to create directory: %v"}
         /\ ~SummaryPrinted)

\* Every task of the run failed and the process exited with status 0.
C13_Witness ==
  /\ pc = "exit0"
  /\ SummaryPrinted
  /\ Cardinality(Failed) = 2
  /\ Succeeded = {}

\* C14 (as claimed): once a task has been started, the counter of the
\* WaitGroup is never zero while main is in the loop with a decodable document
\* still to come.  It is zero whenever the earlier tasks have all finished.
C14_CountNeverZeroWhileDispatching ==
  ( /\ pc = "next"
    /\ DOMAIN tasks # {}
    /\ \E i \in (pos + 1)..Len(catalog) : ~catalog[i].bad )
  => wg > 0

\* The counter of the WaitGroup is raised only by the wg.Add of main, and a
\* goroutine is started only at the go statement, after its wg.Add.
C14_RegisterStep ==
  /\ wg' > wg => (pc = "add" /\ pc' = "acquire" /\ wg' = wg + 1)
  /\ DOMAIN tasks' # DOMAIN tasks => (pc = "go" /\ pc' = "next" /\ wg >= 1)

\* C14 (amended): every task is registered before it starts and before main
\* moves on to the next document, no registration happens once wg.Wait has
\* been called, and wg.Wait is called only when no document is left: the
\* counter is the number of registered tasks that have not called wg.Done (it
\* may be zero between two documents).
C14_RegisteredBeforeStart ==
  /\ [][C14_RegisterStep]_vars
  /\ [](wg = Cardinality({t \in DOMAIN tasks : tasks[t].done = 0})
             + (IF pc \in {"acquire", "go"} THEN 1 ELSE 0))
  /\ [](pc \in {"wait", "print", "exit0"} => pos = Len(catalog))

\* The first task has finished, the counter is zero and main is about to
\* read a second, decodable document.
C14_Witness ==
  /\ pc = "next"
  /\ pos = 1
  /\ 1 \in Terminated
  /\ wg = 0
  /\ Len(catalog) = 2
  /\ ~catalog[2].bad

\* C15: the tasks are those of the documents read so far that decoded, one
\* for each, and each works on the identifier and locator of its own
\* document: its copy of podcast, the image it holds, the locator it logs and
\* the chunks it writes are those of that document.
C15_OneTaskPerRecord ==
  /\ DOMAIN tasks \subseteq GoodRead
  /\ pc \notin {"add", "acquire", "go"} => DOMAIN tasks = GoodRead
  /\ \A t \in DOMAIN tasks :
       /\ tasks[t].podcast = RecordOf(t)
       /\ tasks[t].img # Nil => tasks[t].img.src = catalog[t].image
       /\ \A i \in DownloadLines(t) : tasks[t].log[i].args[1] = catalog[t].image
  /\ \A p \in DOMAIN files :
       /\ files[p].head # NoChunk =>
            (p = SavePath(RecordOf(files[p].head.by))
               /\ files[p].head.img.src = catalog[files[p].head.by].image)
       /\ files[p].tail # NoChunk =>
            (p = SavePath(RecordOf(files[p].tail.by))
               /\ files[p].tail.img.src = catalog[files[p].tail.by].image)

\* Two different documents, both saved, main two iterations further.
C15_Witness ==
  /\ pc = "exit0"
  /\ Len(catalog) = 2
  /\ catalog[1] # catalog[2]
  /\ Succeeded = {1, 2}

\* A step that changes the output directory is a step of one task inside
\* saveImage, which has not failed, holds the image of its own document
\* resized to 800x800 and touches only img/<identifier>.jpg of that document;
\* os.Create is the first file operation of the task.
C16_WriteStep ==
  files' # files =>
    \E t \in DOMAIN tasks :
      /\ tasks[t].pc \in {"create", "encode", "encode_tail"}
      /\ tasks'[t].pc # tasks[t].pc
      /\ tasks[t].fail = "none"
      /\ tasks[t].img = [src |-> catalog[t].image, size |-> <<ResizeWidth, ResizeHeight>>]
      /\ (tasks[t].pc = "create") <=> (tasks[t].fileops = 0)
      /\ DOMAIN files \subseteq DOMAIN files'
      /\ \A p \in DOMAIN files' :
           p # "img/" \o catalog[t].podlistUrl \o ".jpg" =>
             (p \in DOMAIN files /\ files'[p] = files[p])

\* C16: each task writes at most one file, img/<identifier>.jpg of its own
\* document and no other path, and only after its download (with decode) and
\* its resize have succeeded, in that order; a task before saveImage or
\* failed before it has performed no file operation.
C16_OneWriteAfterResize ==
  /\ [][C16_WriteStep]_vars
  /\ [](\A t \in DOMAIN tasks :
          (tasks[t].pc \in {"download", "resize", "create"}
             \/ tasks[t].fail \in {"download", "resize"})
            => tasks[t].fileops = 0)

\* A task has written its file completely.
C16_Witness ==
  \E t \in Succeeded :
    /\ FileState(files[SavePath(tasks[t].podcast)]) = "complete"
    /\ files[SavePath(tasks[t].podcast)].head.by = t
    /\ Cardinality(DOMAIN files) = 1
    /\ Cardinality(DOMAIN tasks) = 2

\* C19: the tokens in the channel never outnumber the outstanding count of
\* the WaitGroup, and once wg.Wait has returned the channel is empty.
C19_TokensWithinOutstanding ==
  /\ sem <= wg
  /\ pc \in {"print", "exit0"} => sem = 0

\* Tasks ran, wg.Wait returned, no token is left.
C19_Witness ==
  /\ pc = "print"
  /\ Cardinality(Terminated) = 2
  /\ sem = 0
  /\ wg = 0
====
